---- MODULE Spec2Model ----
(***************************************************************************)
(* Model of the Azure content-safety evaluator                             *)
(* (assistants/prospector-assistant/assistant/responsible_ai/              *)
(* azure_evaluator.py) and of the assistant service's event dispatch as    *)
(* driven by tests/test_assistant_app.py.                                  *)
(***************************************************************************)
EXTENDS Integers, Sequences, FiniteSets, TLC

(***************************************************************************)
(* Bounds of the model.                                                    *)
(***************************************************************************)
\* longest content string that is evaluated
MaxLen == 3
\* largest configured max_request_length
MaxReq == 3
\* configured max_request_length ranges over -MaxNeg .. MaxReq (the field is a plain int)
MaxNeg == 1
\* longest categories_analysis list of a backend response (specification SpecBatch)
MaxCats == 3

(***************************************************************************)
(* Values.                                                                 *)
(***************************************************************************)
\* Literal[0, 2, 4, 6] of warn_at_severity and fail_at_severity
SeverityLevels == {0, 2, 4, 6}
\* default of warn_at_severity
DefaultWarnAtSeverity == 2
\* default of fail_at_severity
DefaultFailAtSeverity == 4
\* a category whose severity is None
NoSeverity == -1
\* severities a categories_analysis item can carry
ResponseSeverities == SeverityLevels \cup {NoSeverity}
\* categories the service reports
Categories == {"Hate", "Violence"}
\* details of the exceptions the service call can end in
ServiceErrors == {"timeout", "unauthorized"}
\* the note None
None == <<>>
\* "no exception"
NoExc == "none"

Pass == "Pass"
Warn == "Warn"
Fail == "Fail"

\* the three note formats of the evaluator
ErrorNote(e) == <<"Azure Content Safety service error", e>>
FailedNote(c) == <<"Content safety category", c, "failed.">>
WarnedNote(c) == <<"Content safety category", c, "warned.">>

\* metadata of an evaluation built without a metadata argument: it holds no entry of
\* the batch, content_length included
EmptyMetadata == [keys |-> {}, categories_analysis |-> <<>>, content_length |-> 0]
\* the batch metadata without its content_length entry
BatchMetadataNoLength(response, text) ==
    [keys |-> {"categories_analysis"}, categories_analysis |-> response, content_length |-> 0]
\* {**response.as_dict(), "content_length": len(text)}
BatchMetadata(response, text) ==
    [keys |-> {"categories_analysis", "content_length"},
     categories_analysis |-> response,
     content_length |-> Len(text)]

\* sequences over S of length 0..n
RECURSIVE SeqsUpTo(_, _)
SeqsUpTo(S, n) ==
    IF n = 0 THEN {<<>>}
    ELSE LET shorter == SeqsUpTo(S, n - 1)
         IN  shorter \cup {Append(s, x) : s \in {t \in shorter : Len(t) = n - 1}, x \in S}

CategoryItems == [category : Categories, severity : ResponseSeverities]

\* what one call of analyze_text can end in: an exception or a response
ErrorOutcomes == [kind : {"error"}, detail : ServiceErrors, categories_analysis : {<<>>}]
ResponseOutcomes(n) ==
    [kind : {"response"}, detail : {NoExc}, categories_analysis : SeqsUpTo(CategoryItems, n)]
\* outcomes explored when whole contents are evaluated: at most one category per response
EvalOutcomes == ErrorOutcomes \cup ResponseOutcomes(1)
\* outcomes explored when one batch is evaluated
BatchOutcomes == ErrorOutcomes \cup ResponseOutcomes(MaxCats)

\* the content, each character standing for itself: character i of the text is i,
\* so that a slice shows which characters it holds
TextOfLen(n) == [i \in 1..n |-> i]

VARIABLES
    text,       \* the content after the join of line 157
    config,     \* AzureContentSafetyEvaluatorConfigModel
    pc,         \* position of evaluate: "start", "gather", "done", "raised"
    items,      \* the batches
    tasks,      \* per batch: Pending, or the ContentSafetyEvaluation its task returned
    service,    \* per batch: NotCalled, or what its analyze_text call ended in
    result,     \* result of evaluate
    note,       \* note of evaluate
    metadata,   \* metadata of evaluate
    raised,     \* the exception evaluate ended in, or NoExc
    assistants,     \* assistant instances the service holds
    conversations,  \* conversations the service holds
    events,         \* the conversation events posted so far, in order
    inflight,       \* the request being served: its kind and the handlers still to invoke
    callLog,        \* the handler invocations so far, in order
    order,          \* the batches in the order in which their tasks completed
    wrapped,        \* the call of a callable wrapped by translate_assistant_errors
    translated,     \* the wrapped calls that ended, with what each surfaced
    srcDir,         \* the storage directory of the source conversation
    destDir,        \* the storage directory of the destination conversation
    destBefore,     \* what destDir held when the import started
    stream,         \* the exported byte stream
    xfer,           \* position of the export / import: "start", "exported", "imported"
    stored,         \* the config the provider holds
    before,         \* the config the provider held when the last request arrived
    request,        \* the last config request
    response        \* the response of the last config request

evalVars == <<text, config, pc, items, tasks, service, result, note, metadata, raised>>

routerVars == <<assistants, conversations, events, inflight, callLog>>

translateVars == <<wrapped, translated>>

storageVars == <<srcDir, destDir, destBefore, stream, xfer>>

configVars == <<stored, before, request, response>>

appVars == <<translateVars, storageVars, configVars>>

vars == <<text, config, pc, items, tasks, service, result, note, metadata, raised,
          assistants, conversations, events, inflight, callLog, order,
          wrapped, translated, srcDir, destDir, destBefore, stream, xfer, stored, before, request, response>>

Min(a, b) == IF a < b THEN a ELSE b

\* Python's range(start, stop, step) for step # 0, as a sequence
RECURSIVE Range(_, _, _)
Range(start, stop, step) ==
    IF step > 0
    THEN IF start >= stop THEN <<>> ELSE <<start>> \o Range(start + step, stop, step)
    ELSE IF start <= stop THEN <<>> ELSE <<start>> \o Range(start + step, stop, step)

\* Python's s[i:j] for 0 <= i <= j
Slice(s, i, j) == SubSeq(s, i + 1, Min(j, Len(s)))

\* the batching of lines 160-166; step 0 makes range() raise ValueError
SplitRaises(t, m) == Len(t) > m /\ m = 0
SplitItems(t, m) ==
    IF Len(t) > m
    THEN LET starts == Range(0, Len(t), m)
         IN  [k \in 1..Len(starts) |-> Slice(t, starts[k], starts[k] + m)]
    ELSE <<t>>

\* the category loop without the break of line 243: a later category overrides a failing one
RECURSIVE ScanCategoriesNoBreak(_, _, _, _)
ScanCategoriesNoBreak(cats, k, ev, cfg) ==
    IF k > Len(cats) THEN ev
    ELSE IF cats[k].severity = NoSeverity THEN ScanCategoriesNoBreak(cats, k + 1, ev, cfg)
    ELSE IF cats[k].severity >= cfg.fail_at_severity
         THEN ScanCategoriesNoBreak(cats, k + 1,
                  [ev EXCEPT !.result = Fail, !.note = FailedNote(cats[k].category)], cfg)
    ELSE IF cats[k].severity >= cfg.warn_at_severity
         THEN ScanCategoriesNoBreak(cats, k + 1,
                  [ev EXCEPT !.result = Warn, !.note = WarnedNote(cats[k].category)], cfg)
    ELSE ScanCategoriesNoBreak(cats, k + 1, ev, cfg)

\* the category loop keeping the first warning instead of the last
RECURSIVE ScanCategoriesFirstWarn(_, _, _, _)
ScanCategoriesFirstWarn(cats, k, ev, cfg) ==
    IF k > Len(cats) THEN ev
    ELSE IF cats[k].severity = NoSeverity THEN ScanCategoriesFirstWarn(cats, k + 1, ev, cfg)
    ELSE IF cats[k].severity >= cfg.fail_at_severity
         THEN [ev EXCEPT !.result = Fail, !.note = FailedNote(cats[k].category)]
    ELSE IF cats[k].severity >= cfg.warn_at_severity /\ ev.result # Warn
         THEN ScanCategoriesFirstWarn(cats, k + 1,
                  [ev EXCEPT !.result = Warn, !.note = WarnedNote(cats[k].category)], cfg)
    ELSE ScanCategoriesFirstWarn(cats, k + 1, ev, cfg)

\* the category loop of lines 234-250, from item k on
RECURSIVE ScanCategories(_, _, _, _)
ScanCategories(cats, k, ev, cfg) ==
    IF k > Len(cats) THEN ev
    ELSE IF cats[k].severity = NoSeverity THEN ScanCategories(cats, k + 1, ev, cfg)
    ELSE IF cats[k].severity >= cfg.fail_at_severity
         THEN [ev EXCEPT !.result = Fail, !.note = FailedNote(cats[k].category)]
    ELSE IF cats[k].severity >= cfg.warn_at_severity
         THEN ScanCategories(cats, k + 1,
                  [ev EXCEPT !.result = Warn, !.note = WarnedNote(cats[k].category)], cfg)
    ELSE ScanCategories(cats, k + 1, ev, cfg)

\* _evaluate_batch without the try/except of lines 212-222: the exception of the service
\* call leaves the coroutine
evaluate_batch_uncaught(t, outcome, cfg) ==
    IF outcome.kind = "error"
    THEN [exc |-> outcome.detail,
          ev |-> [result |-> Fail, note |-> None, metadata |-> EmptyMetadata]]
    ELSE [exc |-> NoExc,
          ev |-> ScanCategories(outcome.categories_analysis, 1,
                     [result |-> Pass, note |-> None,
                      metadata |-> BatchMetadata(outcome.categories_analysis, t)],
                     cfg)]

\* _evaluate_batch: exc is the exception it ends in (NoExc: it returns ev)
evaluate_batch(t, outcome, cfg) ==
    IF outcome.kind = "error"
    THEN [exc |-> NoExc,
          ev |-> [result |-> Fail, note |-> ErrorNote(outcome.detail), metadata |-> EmptyMetadata]]
    ELSE [exc |-> NoExc,
          ev |-> ScanCategories(outcome.categories_analysis, 1,
                     [result |-> Pass, note |-> None,
                      metadata |-> BatchMetadata(outcome.categories_analysis, t)],
                     cfg)]

\* the loop without the break of line 192: a later batch overrides a failing one
RECURSIVE CombineNoBreak(_, _, _)
CombineNoBreak(results, k, acc) ==
    IF k > Len(results) THEN acc
    ELSE LET evaluation == results[k]
             appended == [acc EXCEPT !.batches = Append(@, evaluation.metadata)]
         IN  IF evaluation.result \in {Fail, Warn}
             THEN CombineNoBreak(results, k + 1,
                      [appended EXCEPT !.result = evaluation.result, !.note = evaluation.note])
             ELSE CombineNoBreak(results, k + 1, appended)

\* the loop keeping the first warning instead of the last
RECURSIVE CombineFirstWarn(_, _, _)
CombineFirstWarn(results, k, acc) ==
    IF k > Len(results) THEN acc
    ELSE LET evaluation == results[k]
             appended == [acc EXCEPT !.batches = Append(@, evaluation.metadata)]
         IN  IF evaluation.result = Fail
             THEN [appended EXCEPT !.result = Fail, !.note = evaluation.note]
             ELSE IF evaluation.result = Warn /\ acc.result # Warn
             THEN CombineFirstWarn(results, k + 1,
                      [appended EXCEPT !.result = Warn, !.note = evaluation.note])
             ELSE CombineFirstWarn(results, k + 1, appended)

\* the loop of lines 184-197 over results, from result k on
RECURSIVE Combine(_, _, _)
Combine(results, k, acc) ==
    IF k > Len(results) THEN acc
    ELSE LET evaluation == results[k]
             appended == [acc EXCEPT !.batches = Append(@, evaluation.metadata)]
         IN  IF evaluation.result = Fail
             THEN [appended EXCEPT !.result = Fail, !.note = evaluation.note]
             ELSE IF evaluation.result = Warn
             THEN Combine(results, k + 1,
                      [appended EXCEPT !.result = Warn, !.note = evaluation.note])
             ELSE Combine(results, k + 1, appended)

\* the service has not been called for the batch
NotCalled == [kind |-> "none", detail |-> NoExc, categories_analysis |-> <<>>]
\* a task of the gather that has not run yet
Pending == [result |-> "pending", note |-> None, metadata |-> EmptyMetadata]
Finished(i) == tasks[i] # Pending
\* a gather that resumes the awaiter as soon as one task has a failing result
GatherFailFast ==
    \/ \A i \in 1..Len(tasks) : tasks[i] # Pending
    \/ \E i \in 1..Len(tasks) : tasks[i].result = Fail
\* asyncio.gather without return_exceptions: resumes the awaiter when every task is done
GatherComplete == \A i \in 1..Len(tasks) : Finished(i)
\* a gather that hands the results back in the order in which the tasks completed
GatherResultsAsCompleted == [k \in 1..Len(order) |-> tasks[order[k]]]
\* the results gather hands back, in the order of the awaitables
GatherResults == [i \in 1..Len(tasks) |-> tasks[i]]

\* the result starting as Warn
InitialResultWarn == Warn
\* lines 169-170: the result starts as Pass, without a note
InitialResult == Pass
InitialNote == None

Configs(ms, ws, fs) ==
    [max_request_length : ms, warn_at_severity : ws, fail_at_severity : fs]

InitWith(texts, configs) ==
    /\ text \in texts
    /\ config \in configs
    /\ pc = "start"
    /\ items = <<>>
    /\ tasks = <<>>
    /\ service = <<>>
    /\ result = InitialResult
    /\ note = InitialNote
    /\ metadata = [content_length |-> 0, max_request_length |-> 0, batches |-> <<>>]
    /\ raised = NoExc

\* evaluate up to the gather: lines 157-176, and the creation of the tasks of line 180
Split ==
    /\ pc = "start"
    /\ IF SplitRaises(text, config.max_request_length)
       THEN /\ pc' = "raised"
            /\ raised' = "ValueError"
            /\ UNCHANGED <<items, tasks, service, result, note, metadata>>
       ELSE /\ pc' = "gather"
            /\ items' = SplitItems(text, config.max_request_length)
            /\ tasks' = [i \in 1..Len(items') |-> Pending]
            /\ service' = [i \in 1..Len(items') |-> NotCalled]
            /\ result' = InitialResult
            /\ note' = InitialNote
            /\ metadata' = [content_length |-> Len(text),
                            max_request_length |-> config.max_request_length,
                            batches |-> <<>>]
            /\ UNCHANGED raised
    /\ UNCHANGED <<text, config>>
    /\ UNCHANGED <<routerVars, appVars, order>>

\* one task of the gather runs _evaluate_batch on its batch; the body has no await,
\* so it runs in one step. The event loop picks the order of the tasks.
RunTask(i, outcomes) ==
    /\ pc = "gather"
    /\ i \in 1..Len(tasks)
    /\ tasks[i] = Pending
    /\ \E outcome \in outcomes :
         LET r == evaluate_batch(items[i], outcome, config)
         IN  /\ service' = [service EXCEPT ![i] = outcome]
             /\ IF r.exc # NoExc
                THEN /\ pc' = "raised"
                     /\ raised' = r.exc
                     /\ UNCHANGED tasks
                ELSE /\ tasks' = [tasks EXCEPT ![i] = r.ev]
                     /\ UNCHANGED <<pc, raised>>
    /\ UNCHANGED <<text, config, items, result, note, metadata>>
    /\ UNCHANGED <<routerVars, appVars>>

\* the gather resumes evaluate, which combines the results and returns: lines 184-204
Aggregate ==
    /\ pc = "gather"
    /\ GatherComplete
    /\ LET acc == Combine(GatherResults, 1,
                      [result |-> result, note |-> note, batches |-> metadata.batches])
       IN  /\ result' = acc.result
           /\ note' = acc.note
           /\ metadata' = [metadata EXCEPT !.batches = acc.batches]
    /\ pc' = "done"
    /\ UNCHANGED <<text, config, items, tasks, service, raised>>
    /\ UNCHANGED <<routerVars, appVars, order>>


(***************************************************************************)
(* The assistant service as test_assistant_with_event_handlers drives it:  *)
(* lifecycle calls and conversation events, dispatched to the handlers     *)
(* the test registers.                                                     *)
(***************************************************************************)
\* conversation events posted in one run
MaxEvents == 2

AssistantIds == {"a1"}
ConversationIds == {"c1", "c2"}
\* workbench_model.MessageType values that are posted
MessageTypes == {"chat", "notice", "command"}

\* the registrations with on_conversation_created also registered for created messages
RegisteredCreatedOnMessage(tag) ==
    IF tag = <<"assistant", "created">> THEN <<"on_assistant_created">>
    ELSE IF tag = <<"conversation", "created">> THEN <<"on_conversation_created">>
    ELSE IF tag = <<"conversation", "message", "created">>
         THEN <<"on_message_created", "on_conversation_created">>
    ELSE IF tag = <<"conversation", "message", "chat", "created">> THEN <<"on_chat_message">>
    ELSE <<>>

\* the registrations with on_chat_message registered for every created message
RegisteredChatOnCoarse(tag) ==
    IF tag = <<"assistant", "created">> THEN <<"on_assistant_created">>
    ELSE IF tag = <<"conversation", "created">> THEN <<"on_conversation_created">>
    ELSE IF tag = <<"conversation", "message", "created">>
         THEN <<"on_message_created", "on_chat_message">>
    ELSE <<>>

\* the handlers the test registers, per event tag, in registration order
Registered(tag) ==
    IF tag = <<"assistant", "created">> THEN <<"on_assistant_created">>
    ELSE IF tag = <<"conversation", "created">> THEN <<"on_conversation_created">>
    ELSE IF tag = <<"conversation", "message", "created">> THEN <<"on_message_created">>
    ELSE IF tag = <<"conversation", "message", "chat", "created">> THEN <<"on_chat_message">>
    ELSE <<>>

\* the top-level tag and the full tag of a message-created event
CoarseTag == <<"conversation", "message", "created">>
SpecificTag(message_type) == <<"conversation", "message", message_type, "created">>

\* dispatch order of one message-created event: the handlers of the top-level tag,
\* then the handlers of the full tag
HandlersFor(message_type) == Registered(CoarseTag) \o Registered(SpecificTag(message_type))

Idle == [kind |-> "none", id |-> "", index |-> 0, queue |-> <<>>]

\* no wrapped call is being made
NoCall == [mode |-> "none", raises |-> "none"]
\* an empty directory
EmptyDir == {}
\* a field of a config request: a string, or a value of another type
Str(v) == [type |-> "str", value |-> v]
NotStr == [type |-> "dict", value |-> "invalid_value"]
\* no config request has been made
NoRequest == [op |-> "none", test_key |-> Str(""), secret_field |-> Str("")]
\* no config request has been answered
NoResponse == [status |-> 0, test_key |-> "", secret_field |-> ""]
\* the defaults of TestConfigModel and TestConfigSecretModel
DefaultStored == [test_key |-> "test_value", secret_field |-> ""]

\* the parts of the service that a specification leaves at rest
CallsAtRest ==
    /\ order = <<>>
    /\ wrapped = NoCall
    /\ translated = <<>>

StorageAtRest ==
    /\ srcDir = EmptyDir
    /\ destDir = EmptyDir
    /\ destBefore = EmptyDir
    /\ stream = <<>>
    /\ xfer = "start"

ConfigAtRest ==
    /\ stored = DefaultStored
    /\ before = DefaultStored
    /\ request = NoRequest
    /\ response = NoResponse

InitApp == CallsAtRest /\ StorageAtRest /\ ConfigAtRest

RouterAtRest ==
    /\ assistants = {}
    /\ conversations = {}
    /\ events = <<>>
    /\ inflight = Idle
    /\ callLog = <<>>

InitRouter == InitApp /\ RouterAtRest

\* put_assistant_instance: a new assistant is created and assistant-created is dispatched;
\* a known one is updated
PutAssistant ==
    /\ inflight = Idle
    /\ \E a \in AssistantIds :
         IF a \in assistants
         THEN UNCHANGED <<assistants, inflight>>
         ELSE /\ assistants' = assistants \cup {a}
              /\ inflight' = [kind |-> "assistant", id |-> a, index |-> 0,
                              queue |-> Registered(<<"assistant", "created">>)]
    /\ UNCHANGED <<conversations, events, callLog>>
    /\ UNCHANGED <<evalVars, appVars, order>>

\* put_conversation on an existing assistant: a new conversation is created and
\* conversation-created is dispatched; a known one is updated
PutConversation ==
    /\ inflight = Idle
    /\ \E a \in assistants, c \in ConversationIds :
         IF c \in conversations
         THEN UNCHANGED <<conversations, inflight>>
         ELSE /\ conversations' = conversations \cup {c}
              /\ inflight' = [kind |-> "conversation", id |-> c, index |-> 0,
                              queue |-> Registered(<<"conversation", "created">>)]
    /\ UNCHANGED <<assistants, events, callLog>>
    /\ UNCHANGED <<evalVars, appVars, order>>

\* post_conversation_event with a message_created event of an existing conversation
PostConversationEvent ==
    /\ inflight = Idle
    /\ Len(events) < MaxEvents
    /\ \E c \in conversations, t \in MessageTypes :
         /\ events' = Append(events, [conversation |-> c, message_type |-> t])
         /\ inflight' = [kind |-> "event", id |-> c, index |-> Len(events) + 1,
                         queue |-> HandlersFor(t)]
    /\ UNCHANGED <<assistants, conversations, callLog>>
    /\ UNCHANGED <<evalVars, appVars, order>>

\* the next handler of the request being served is invoked and completes
InvokeHandler ==
    /\ inflight.queue # <<>>
    /\ callLog' = Append(callLog, [handler |-> Head(inflight.queue), kind |-> inflight.kind,
                                   id |-> inflight.id, index |-> inflight.index])
    /\ inflight' = [inflight EXCEPT !.queue = Tail(@)]
    /\ UNCHANGED <<assistants, conversations, events>>
    /\ UNCHANGED <<evalVars, appVars, order>>

\* every handler of the request has completed: the call returns to the client
Return ==
    /\ inflight.kind # "none"
    /\ inflight.queue = <<>>
    /\ inflight' = Idle
    /\ UNCHANGED <<assistants, conversations, events, callLog>>
    /\ UNCHANGED <<evalVars, appVars, order>>

(***************************************************************************)
(* translate_assistant_errors, as test_translate_assistant_errors calls    *)
(* it: a decorated callable, synchronous or asynchronous, that raises.     *)
(***************************************************************************)
\* wrapped calls made in one run
MaxCalls == 2

\* the errors the decorated callables of the test raise; "none": the callable returns
RaisedErrors == {"NotFoundError", "ConflictError", "BadRequestError", "UnknownErrorForTest"}
CallModes == {"sync", "async"}

HTTPException(status_code, exc) ==
    [kind |-> "HTTPException", status_code |-> status_code, error |-> exc]
Propagated(exc) == [kind |-> "raised", status_code |-> 0, error |-> exc]
ReturnedValue == [kind |-> "returned", status_code |-> 0, error |-> "none"]

\* a decorator whose synchronous wrapper translates nothing
translate_async_only(mode, exc) ==
    IF exc = "none" THEN ReturnedValue
    ELSE IF mode = "sync" THEN Propagated(exc)
    ELSE IF exc = "NotFoundError" THEN HTTPException(404, exc)
    ELSE IF exc = "ConflictError" THEN HTTPException(409, exc)
    ELSE IF exc = "BadRequestError" THEN HTTPException(400, exc)
    ELSE Propagated(exc)

\* what a call through the decorator surfaces when the callable raises exc: the three
\* canonical kinds become HTTP errors, any other error propagates unchanged; the wrapper
\* of a synchronous and of an asynchronous callable do the same
translate_assistant_errors(mode, exc) ==
    IF exc = "none" THEN ReturnedValue
    ELSE IF exc = "NotFoundError" THEN HTTPException(404, exc)
    ELSE IF exc = "ConflictError" THEN HTTPException(409, exc)
    ELSE IF exc = "BadRequestError" THEN HTTPException(400, exc)
    ELSE Propagated(exc)

\* raise_err_sync() or await raise_err_async() is called
CallWrapped ==
    /\ wrapped = NoCall
    /\ Len(translated) < MaxCalls
    /\ \E m \in CallModes, e \in RaisedErrors \cup {"none"} :
         wrapped' = [mode |-> m, raises |-> e]
    /\ UNCHANGED <<translated, storageVars, configVars>>
    /\ UNCHANGED <<evalVars, routerVars, order>>

\* the callable raises (or returns) and the wrapper surfaces the outcome to the caller
WrapperEnds ==
    /\ wrapped # NoCall
    /\ translated' = Append(translated,
            [mode |-> wrapped.mode, raised |-> wrapped.raises,
             outcome |-> translate_assistant_errors(wrapped.mode, wrapped.raises)])
    /\ wrapped' = NoCall
    /\ UNCHANGED <<storageVars, configVars>>
    /\ UNCHANGED <<evalVars, routerVars, order>>

(***************************************************************************)
(* FileStorageConversationDataExporter: export of the directory of the     *)
(* source conversation to a stream, import_ of the stream into the         *)
(* directory of the destination conversation.                              *)
(***************************************************************************)
\* the paths of the two tests, in the order a sorted walk visits them, and the same names
\* one level further down
PathOrder ==
    << <<"subdir">>, <<"subdir", "test.bin">>, <<"test.txt">>, <<"test.txt", "test.bin">> >>
Paths == {PathOrder[k] : k \in 1..Len(PathOrder)}
FileContents == {"Hello, world", "this file will be overwritten"}

File(p, c) == [path |-> p, kind |-> "file", content |-> c]
Dir(p) == [path |-> p, kind |-> "dir", content |-> ""]
Entries == {File(p, c) : p \in Paths, c \in FileContents} \cup {Dir(p) : p \in Paths}

\* p is a proper ancestor of q
IsAncestor(p, q) == Len(p) < Len(q) /\ SubSeq(q, 1, Len(p)) = p

\* a directory tree: one entry per path, every entry below a directory
IsTree(d) ==
    /\ \A x, y \in d : x.path = y.path => x = y
    /\ \A x \in d : \A p \in Paths : IsAncestor(p, x.path) => Dir(p) \in d
Trees == {d \in SUBSET Entries : IsTree(d)}

\* export: the entries of the directory, as listed when the export starts, written to
\* the stream in the order of a sorted walk
Export(dir) ==
    LET present == SelectSeq(PathOrder, LAMBDA p : \E e \in dir : e.path = p)
    IN  [k \in 1..Len(present) |-> CHOOSE e \in dir : e.path = present[k]]

\* one entry of the stream is written to the directory: a file replaces what is at its
\* path, a directory is created unless one is there
WriteEntry(dir, e) ==
    IF e.kind = "dir" /\ e \in dir THEN dir
    ELSE {x \in dir : x.path # e.path /\ ~IsAncestor(e.path, x.path)} \cup {e}

RECURSIVE ExtractAll(_, _)
ExtractAll(dir, entries) ==
    IF entries = <<>> THEN dir
    ELSE ExtractAll(WriteEntry(dir, Head(entries)), Tail(entries))

\* an import that extracts over what the destination holds
ImportMerging(dir, entries) == ExtractAll(dir, entries)

\* import_: the destination is cleared, then the stream is extracted into it
Import(dir, entries) == ExtractAll(EmptyDir, entries)

\* data_provider.export(src_conversation_context)
ExportSource ==
    /\ xfer = "start"
    /\ stream' = Export(srcDir)
    /\ xfer' = "exported"
    /\ UNCHANGED <<srcDir, destDir, destBefore, translateVars, configVars>>
    /\ UNCHANGED <<evalVars, routerVars, order>>

\* data_provider.import_(dest_conversation_context, stream)
ImportDestination ==
    /\ xfer = "exported"
    /\ destBefore' = destDir
    /\ destDir' = Import(destDir, stream)
    /\ xfer' = "imported"
    /\ UNCHANGED <<srcDir, stream, translateVars, configVars>>
    /\ UNCHANGED <<evalVars, routerVars, order>>

(***************************************************************************)
(* The config provider of BaseModelAssistantConfigWithSecrets over         *)
(* TestConfigModel and TestConfigSecretModel, behind get_config and        *)
(* put_config.                                                             *)
(***************************************************************************)
\* the masking token of a secret field
Mask == "**********"
PublicValues == {"test_value", "new_value", "other_value"}
SecretValues == {"", "new_secret", "other_secret"}

\* the fields a put_config request may carry
PublicFields == {Str(v) : v \in PublicValues} \cup {NotStr}
SecretFields == {Str(v) : v \in SecretValues \cup {Mask}} \cup {NotStr}

\* validation of a field against its declared shape: both fields are strings
Valid(f) == f.type = "str"

\* a read that returns the secret as it is stored
RedactNothing(secret) == secret

\* the secret as an external read returns it: the empty default stays empty
Redact(secret) == IF secret = "" THEN "" ELSE Mask

\* the masking token submitted for a secret field means "unchanged"
Unmask(cur, f) == IF f.value = Mask THEN cur.secret_field ELSE f.value

\* a set that writes each valid field as it comes to it
CommitFieldwise(cur, pub, sec) ==
    [test_key |-> IF Valid(pub) THEN pub.value ELSE cur.test_key,
     secret_field |-> IF Valid(sec) THEN Unmask(cur, sec) ELSE cur.secret_field]

\* what set stores: the validated request, or what was stored if a field is invalid
Commit(cur, pub, sec) ==
    IF Valid(pub) /\ Valid(sec)
    THEN [test_key |-> pub.value, secret_field |-> Unmask(cur, sec)]
    ELSE cur

ConfigResponse(cur) ==
    [status |-> 200, test_key |-> cur.test_key, secret_field |-> Redact(cur.secret_field)]
ValidationError == [status |-> 400, test_key |-> "", secret_field |-> ""]

\* instance_client.get_config()
GetConfig ==
    /\ before' = stored
    /\ request' = [op |-> "get", test_key |-> Str(""), secret_field |-> Str("")]
    /\ response' = ConfigResponse(stored)
    /\ UNCHANGED <<stored, translateVars, storageVars>>
    /\ UNCHANGED <<evalVars, routerVars, order>>

\* instance_client.put_config(ConfigPutRequestModel(config=...))
PutConfig ==
    \E pub \in PublicFields, sec \in SecretFields :
        /\ before' = stored
        /\ request' = [op |-> "put", test_key |-> pub, secret_field |-> sec]
        /\ stored' = Commit(stored, pub, sec)
        /\ response' = IF Valid(pub) /\ Valid(sec)
                       THEN ConfigResponse(stored')
                       ELSE ValidationError
        /\ UNCHANGED <<translateVars, storageVars>>
        /\ UNCHANGED <<evalVars, routerVars, order>>

(***************************************************************************)
(* Specifications.                                                         *)
(***************************************************************************)
EvaluateTask == \E i \in 1..MaxLen + 1 : RunTask(i, EvalOutcomes) /\ UNCHANGED order
\* a task of the gather, recording when it completed
EvaluateTaskInOrder ==
    \E i \in 1..MaxLen + 1 : RunTask(i, EvalOutcomes) /\ order' = Append(order, i)

EvaluateBatchTask == \E i \in 1..MaxLen + 1 : RunTask(i, BatchOutcomes) /\ UNCHANGED order

DefaultConfigs(ms) == Configs(ms, {DefaultWarnAtSeverity}, {DefaultFailAtSeverity})

\* evaluate on every content and max_request_length, with the default thresholds
Init ==
    /\ InitWith({TextOfLen(n) : n \in 0..MaxLen}, DefaultConfigs((0 - MaxNeg)..MaxReq))
    /\ InitRouter

Next == Split \/ EvaluateTask \/ Aggregate

Spec == Init /\ [][Next]_vars

\* evaluate on a content of one batch, with every pair of thresholds and every response
InitBatch ==
    /\ InitWith({TextOfLen(n) : n \in 0..1}, Configs({1}, SeverityLevels, SeverityLevels))
    /\ InitRouter

NextBatch == Split \/ EvaluateBatchTask \/ Aggregate

SpecBatch == InitBatch /\ [][NextBatch]_vars

\* the service under lifecycle calls and conversation events
InitService ==
    /\ InitWith({TextOfLen(0)}, DefaultConfigs({MaxReq}))
    /\ InitRouter

NextService == PutAssistant \/ PutConversation \/ PostConversationEvent \/ InvokeHandler \/ Return

SpecService == InitService /\ [][NextService]_vars

\* calls through translate_assistant_errors
InitTranslate == InitService

NextTranslate == CallWrapped \/ WrapperEnds

SpecTranslate == InitTranslate /\ [][NextTranslate]_vars

\* evaluate with the order in which the tasks of the gather complete on record
InitOrder == Init

NextOrder == Split \/ EvaluateTaskInOrder \/ Aggregate

SpecOrder == InitOrder /\ [][NextOrder]_vars

\* an export of any source directory imported into any destination directory
InitStorage ==
    /\ InitWith({TextOfLen(0)}, DefaultConfigs({MaxReq}))
    /\ RouterAtRest
    /\ CallsAtRest
    /\ ConfigAtRest
    /\ srcDir \in Trees
    /\ destDir \in Trees
    /\ destBefore = destDir
    /\ stream = <<>>
    /\ xfer = "start"

NextStorage == ExportSource \/ ImportDestination

SpecStorage == InitStorage /\ [][NextStorage]_vars

\* config requests to an assistant instance, from the default config
InitConfig == InitService

NextConfig == GetConfig \/ PutConfig

SpecConfig == InitConfig /\ [][NextConfig]_vars

(***************************************************************************)
(* Properties of evaluate (specification Spec).                            *)
(***************************************************************************)
Chunks == 1..Len(tasks)
Returned == pc = "done"
SomeFail == \E i \in Chunks : tasks[i].result = Fail
SomeWarn == \E i \in Chunks : tasks[i].result = Warn
FirstFail == CHOOSE i \in Chunks :
    tasks[i].result = Fail /\ \A j \in 1..(i - 1) : tasks[j].result # Fail
LastWarn == CHOOSE i \in Chunks :
    tasks[i].result = Warn /\ \A j \in (i + 1)..Len(tasks) : tasks[j].result # Warn

\* C1: when evaluate has returned and some chunk's result is Fail, the overall result
\* is Fail and the overall note is the note of the first failing chunk in chunk order,
\* whatever the results of the chunks before and after it.
C1_FirstFailWins ==
    (Returned /\ SomeFail) => (result = Fail /\ note = tasks[FirstFail].note)

\* a Warn chunk, then a failing chunk, then a chunk failing with another note
C1_Witness ==
    /\ Returned
    /\ Len(tasks) = 3
    /\ tasks[1].result = Warn
    /\ tasks[2].result = Fail
    /\ tasks[3].result = Fail
    /\ tasks[3].note # tasks[2].note
    /\ note = tasks[2].note

\* C2: when evaluate has returned, no chunk is Fail and some chunk is Warn, the overall
\* result is Warn and the overall note is the note of the last warning chunk in chunk order.
C2_LastWarnWins ==
    (Returned /\ ~SomeFail /\ SomeWarn) => (result = Warn /\ note = tasks[LastWarn].note)

\* two warning chunks with different notes, then a passing chunk
C2_Witness ==
    /\ Returned
    /\ Len(tasks) = 3
    /\ tasks[1].result = Warn
    /\ tasks[2].result = Warn
    /\ tasks[1].note # tasks[2].note
    /\ tasks[3].result = Pass
    /\ note = tasks[2].note

\* C3: when evaluate has returned and no chunk is Fail or Warn, the overall result is
\* Pass and the overall note is None.
C3_AllPass ==
    (Returned /\ ~SomeFail /\ ~SomeWarn) => (result = Pass /\ note = None)

\* three chunks were evaluated and each passed
C3_Witness ==
    /\ Returned
    /\ Len(tasks) = 3
    /\ \A i \in Chunks : tasks[i].result = Pass
    /\ result = Pass

TextLength == Len(text)
MaxRequestLength == config.max_request_length

\* n is the number of chunks stated for a content of length l and a maximum m:
\* 1 for the empty content, else the ceiling of l / m
IsChunkCount(n, l, m) ==
    IF l = 0 THEN n = 1
    ELSE IF m > 0 THEN (n - 1) * m < l /\ l <= n * m
    ELSE IF m < 0 THEN (n - 1) * m > l /\ l >= n * m
    ELSE FALSE

RECURSIVE Concat(_)
Concat(seqs) == IF seqs = <<>> THEN <<>> ELSE Head(seqs) \o Concat(Tail(seqs))

IsSliceOf(chunk, t) ==
    \E i \in 1..(Len(t) + 1) : chunk = SubSeq(t, i, i + Len(chunk) - 1)

SplitAsStated ==
    /\ pc # "raised"
    /\ IsChunkCount(Len(items), TextLength, MaxRequestLength)
    /\ \A k \in 1..Len(items) :
         Len(items[k]) <= MaxRequestLength /\ IsSliceOf(items[k], text)
    /\ Concat(items) = text

\* C4: once evaluate has batched a content of length L under max_request_length M, there
\* are exactly ceil(L/M) chunks (1 chunk if L = 0), each a contiguous slice of the content
\* of length at most M, and the chunks concatenated in order are the content.
C4_SplitIntoChunks == (pc # "start") => SplitAsStated

\* C4 for max_request_length >= 1, where the batching is as stated
C4_SplitIntoChunksPositive == (pc # "start" /\ MaxRequestLength >= 1) => SplitAsStated

\* the sum of the content_length entries of the batches of the returned metadata
RECURSIVE SumContentLength(_)
SumContentLength(batches) ==
    IF batches = <<>> THEN 0
    ELSE (IF "content_length" \in Head(batches).keys THEN Head(batches).content_length ELSE 0)
         + SumContentLength(Tail(batches))

\* the chunks whose batches the returned metadata holds: those up to and including the
\* first failing chunk, every chunk when none fails
Recorded == IF SomeFail THEN 1..FirstFail ELSE Chunks
Analysed(i) == service[i].kind = "response"

RECURSIVE SumLen(_, _)
SumLen(S, seqs) ==
    IF S = {} THEN 0
    ELSE LET i == CHOOSE j \in S : TRUE IN Len(seqs[i]) + SumLen(S \ {i}, seqs)

\* C5 as stated, on its cases with max_request_length >= 1 and every service call
\* answered (the chunks cover the content and each batch has its metadata): when evaluate
\* has returned, the content_length entries of the batches of the returned metadata total
\* L, which is the top-level content_length.
C5_BatchLengthsTotalContent ==
    (Returned /\ MaxRequestLength >= 1 /\ \A i \in Chunks : Analysed(i)) =>
        /\ metadata.content_length = TextLength
        /\ SumContentLength(metadata.batches) = TextLength

\* C5 amended: when evaluate has returned, the top-level content_length is L; the metadata
\* holds one batch per chunk up to and including the first failing chunk (per chunk when
\* none fails); a batch whose service call failed has no content_length, every other batch
\* has the length of its chunk; so the entries total the lengths of the recorded chunks
\* whose service call succeeded, which is L when no chunk fails and the chunks cover the
\* content.
C5_BatchLengthsOfRecordedChunks ==
    Returned =>
        /\ metadata.content_length = TextLength
        /\ Len(metadata.batches) = Cardinality(Recorded)
        /\ \A i \in Recorded :
             IF Analysed(i)
             THEN /\ "content_length" \in metadata.batches[i].keys
                  /\ metadata.batches[i].content_length = Len(items[i])
             ELSE "content_length" \notin metadata.batches[i].keys
        /\ SumContentLength(metadata.batches) = SumLen({i \in Recorded : Analysed(i)}, items)
        /\ (~SomeFail /\ Concat(items) = text) => SumContentLength(metadata.batches) = TextLength

\* three chunks, the second fails on a category: two batches are recorded, which total 2 of 3
C5_Witness ==
    /\ Returned
    /\ TextLength = 3
    /\ Len(items) = 3
    /\ tasks[1].result = Warn
    /\ tasks[2].result = Fail
    /\ Analysed(2)
    /\ Len(metadata.batches) = 2
    /\ SumContentLength(metadata.batches) = 2

(***************************************************************************)
(* Properties of _evaluate_batch (specification SpecBatch).                *)
(***************************************************************************)
\* the chunks whose task has returned on a response of the service
Scanned == {i \in Chunks : Finished(i) /\ Analysed(i)}
CategoriesOf(i) == service[i].categories_analysis
HasSeverity(c) == c.severity # NoSeverity
MeetsFail(c) == HasSeverity(c) /\ c.severity >= config.fail_at_severity
MeetsWarn(c) == HasSeverity(c) /\ c.severity >= config.warn_at_severity
SomeMeetsFail(i) == \E k \in 1..Len(CategoriesOf(i)) : MeetsFail(CategoriesOf(i)[k])
SomeMeetsWarn(i) == \E k \in 1..Len(CategoriesOf(i)) : MeetsWarn(CategoriesOf(i)[k])
FirstMeetingFail(i) == CHOOSE k \in 1..Len(CategoriesOf(i)) :
    /\ MeetsFail(CategoriesOf(i)[k])
    /\ \A j \in 1..(k - 1) : ~MeetsFail(CategoriesOf(i)[j])
LastMeetingWarn(i) == CHOOSE k \in 1..Len(CategoriesOf(i)) :
    /\ MeetsWarn(CategoriesOf(i)[k])
    /\ \A j \in (k + 1)..Len(CategoriesOf(i)) : ~MeetsWarn(CategoriesOf(i)[j])

\* C6: a chunk of whose response some category has a severity >= fail_at_severity has the
\* result Fail and the note naming the first such category in iteration order, whatever
\* the categories after it are.
C6_FirstFailingCategory ==
    \A i \in Scanned :
        SomeMeetsFail(i) =>
            /\ tasks[i].result = Fail
            /\ tasks[i].note = FailedNote(CategoriesOf(i)[FirstMeetingFail(i)].category)

\* a warning category, then a failing one, then a failing one of another name
C6_Witness ==
    \E i \in Scanned :
        /\ Len(CategoriesOf(i)) = 3
        /\ MeetsWarn(CategoriesOf(i)[1]) /\ ~MeetsFail(CategoriesOf(i)[1])
        /\ MeetsFail(CategoriesOf(i)[2])
        /\ MeetsFail(CategoriesOf(i)[3])
        /\ CategoriesOf(i)[3].category # CategoriesOf(i)[2].category
        /\ tasks[i].note = FailedNote(CategoriesOf(i)[2].category)

\* C7: a chunk of whose response no category has a severity >= fail_at_severity and some
\* category has a severity >= warn_at_severity has the result Warn and the note naming the
\* last such category in iteration order.
C7_LastWarningCategory ==
    \A i \in Scanned :
        (~SomeMeetsFail(i) /\ SomeMeetsWarn(i)) =>
            /\ tasks[i].result = Warn
            /\ tasks[i].note = WarnedNote(CategoriesOf(i)[LastMeetingWarn(i)].category)

\* two warning categories of different names, then one below the warn threshold
C7_Witness ==
    \E i \in Scanned :
        /\ Len(CategoriesOf(i)) = 3
        /\ ~SomeMeetsFail(i)
        /\ MeetsWarn(CategoriesOf(i)[1])
        /\ MeetsWarn(CategoriesOf(i)[2])
        /\ CategoriesOf(i)[1].category # CategoriesOf(i)[2].category
        /\ ~MeetsWarn(CategoriesOf(i)[3])
        /\ tasks[i].note = WarnedNote(CategoriesOf(i)[2].category)

(***************************************************************************)
(* Failures of the service and the gather (specification Spec).            *)
(***************************************************************************)
ServiceFailed(i) == service[i].kind = "error"

\* C8: a chunk whose service call failed has the result Fail and a note carrying the
\* failure's detail, and no failure of the service is raised out of evaluate: evaluate
\* never ends in the exception of a service call, and with every chunk evaluated,
\* whatever the calls ended in, it returns.
C8_ServiceFailureIsFail ==
    /\ \A i \in Chunks :
         ServiceFailed(i) =>
            /\ tasks[i].result = Fail
            /\ tasks[i].note = ErrorNote(service[i].detail)
    /\ raised \notin ServiceErrors
    /\ (\E i \in Chunks : ServiceFailed(i)) => pc \in {"gather", "done"}
    /\ (pc = "gather" /\ \A i \in Chunks : service[i] # NotCalled) => ENABLED Aggregate

\* evaluate has returned after the service call of the first of three chunks failed and
\* those of the others succeeded
C8_Witness ==
    /\ Returned
    /\ Len(tasks) = 3
    /\ ServiceFailed(1)
    /\ Analysed(2)
    /\ Analysed(3)
    /\ result = Fail
    /\ note = ErrorNote(service[1].detail)

\* C9: evaluate aggregates and returns only when the evaluation of every chunk has
\* completed, and while it waits every chunk not yet evaluated can still be evaluated,
\* whatever the evaluations of its siblings ended in.
C9_JoinAll ==
    /\ Returned => \A i \in 1..Len(items) : Finished(i) /\ service[i] # NotCalled
    /\ pc = "gather" =>
          \A i \in Chunks : ~Finished(i) => ENABLED RunTask(i, EvalOutcomes)
    /\ pc = "gather" => (ENABLED Aggregate <=> \A i \in Chunks : Finished(i))

\* evaluate has returned with three chunks evaluated, the service call of the second
\* having failed, the third chunk evaluated on a response
C9_Witness ==
    /\ Returned
    /\ Len(items) = 3
    /\ ServiceFailed(2)
    /\ Analysed(1)
    /\ Analysed(3)
    /\ Finished(3)

(***************************************************************************)
(* Dispatch of conversation events (specification SpecService).            *)
(***************************************************************************)
\* the invocations of handler h for the e-th posted event, as positions of callLog
CallsFor(h, e) ==
    {k \in 1..Len(callLog) :
        callLog[k].kind = "event" /\ callLog[k].index = e /\ callLog[k].handler = h}
\* the post of the e-th event has returned
Completed(e) == ~(inflight.kind = "event" /\ inflight.index = e)

\* C10: with on_message_created registered for message created and on_chat_message for
\* chat message created, each posted event invokes each of the two at most once and
\* on_chat_message only after on_message_created; once the post of a chat event has
\* returned both were invoked exactly once; an event of another message type (notice)
\* never invokes on_chat_message and has invoked on_message_created once when its post
\* has returned.
C10_CoarseThenSpecific ==
    \A e \in 1..Len(events) :
        /\ Cardinality(CallsFor("on_message_created", e)) <= 1
        /\ Cardinality(CallsFor("on_chat_message", e)) <= 1
        /\ \A k \in CallsFor("on_chat_message", e) :
             \E j \in CallsFor("on_message_created", e) : j < k
        /\ Completed(e) => Cardinality(CallsFor("on_message_created", e)) = 1
        /\ (events[e].message_type = "chat" /\ Completed(e)) =>
              Cardinality(CallsFor("on_chat_message", e)) = 1
        /\ events[e].message_type # "chat" => CallsFor("on_chat_message", e) = {}

\* the posts of the test: a chat message, then a notice, both returned; the handler of
\* created messages ran twice, the handler of chat messages once, after the first run of
\* the other
C10_Witness ==
    /\ Len(events) = 2
    /\ events[1].message_type = "chat"
    /\ events[2].message_type = "notice"
    /\ inflight = Idle
    /\ \E j \in CallsFor("on_message_created", 1), k \in CallsFor("on_chat_message", 1) : j < k
    /\ Cardinality(CallsFor("on_message_created", 2)) = 1
    /\ CallsFor("on_chat_message", 2) = {}

\* the invocations of handler h about the assistant or conversation id
CallsOf(h, id) ==
    {k \in 1..Len(callLog) : callLog[k].handler = h /\ callLog[k].id = id}
\* the put of the assistant or conversation id is not being served
PutReturned(kind, id) == ~(inflight.kind = kind /\ inflight.id = id)
\* the invocations that belong to the dispatch of a message event
EventCalls == {k \in 1..Len(callLog) : callLog[k].kind = "event"}

\* C11: on_assistant_created is invoked at most once per assistant and exactly once when
\* the put of the assistant has returned; on_conversation_created likewise per
\* conversation; and a message event of a conversation is dispatched only after the
\* conversation-created handler of that conversation and the assistant-created handler
\* have completed and their put calls returned.
C11_LifecycleOnceBeforeMessages ==
    /\ \A a \in AssistantIds :
         /\ Cardinality(CallsOf("on_assistant_created", a)) <= 1
         /\ a \notin assistants => CallsOf("on_assistant_created", a) = {}
         /\ (a \in assistants /\ PutReturned("assistant", a)) =>
               Cardinality(CallsOf("on_assistant_created", a)) = 1
    /\ \A c \in ConversationIds :
         /\ Cardinality(CallsOf("on_conversation_created", c)) <= 1
         /\ c \notin conversations => CallsOf("on_conversation_created", c) = {}
         /\ (c \in conversations /\ PutReturned("conversation", c)) =>
               Cardinality(CallsOf("on_conversation_created", c)) = 1
    /\ inflight.kind = "event" =>
         /\ Cardinality(CallsOf("on_conversation_created", inflight.id)) = 1
         /\ \E a \in assistants : Cardinality(CallsOf("on_assistant_created", a)) = 1
    /\ \A k \in EventCalls :
         /\ \E j \in CallsOf("on_conversation_created", callLog[k].id) : j < k
         /\ \E a \in assistants : \E j \in CallsOf("on_assistant_created", a) : j < k

\* the assistant and both conversations were put,
\* and a message event of each conversation was dispatched after its lifecycle handler
C11_Witness ==
    /\ inflight = Idle
    /\ conversations = ConversationIds
    /\ Len(events) = 2
    /\ events[1].conversation # events[2].conversation
    /\ \A c \in ConversationIds : Cardinality(CallsOf("on_conversation_created", c)) = 1
    /\ \A a \in AssistantIds : Cardinality(CallsOf("on_assistant_created", a)) = 1
    /\ Cardinality(EventCalls) >= 2

(***************************************************************************)
(* Error translation (specification SpecTranslate).                        *)
(***************************************************************************)
StatusOf(exc) ==
    IF exc = "NotFoundError" THEN 404
    ELSE IF exc = "ConflictError" THEN 409
    ELSE IF exc = "BadRequestError" THEN 400
    ELSE 0
Canonical == {"NotFoundError", "ConflictError", "BadRequestError"}

\* C12: a wrapped call that raised NotFoundError, ConflictError or BadRequestError
\* surfaced an HTTP error of status 404, 409 or 400, a wrapped call that raised another
\* error surfaced that same error and no HTTP error, and a synchronous and an
\* asynchronous call that raised the same error surfaced the same.
C12_ErrorsTranslated ==
    /\ \A k \in 1..Len(translated) :
         LET c == translated[k]
         IN  /\ c.raised \in Canonical =>
                   (c.outcome.kind = "HTTPException" /\ c.outcome.status_code = StatusOf(c.raised))
             /\ (c.raised \in RaisedErrors \ Canonical) =>
                   (c.outcome.kind = "raised" /\ c.outcome.error = c.raised)
    /\ \A j, k \in 1..Len(translated) :
         translated[j].raised = translated[k].raised =>
             translated[j].outcome = translated[k].outcome

\* a synchronous call that raised ConflictError surfaced 409 and an asynchronous call
\* that raised UnknownErrorForTest surfaced that error
C12_Witness ==
    /\ Len(translated) = 2
    /\ translated[1].mode = "sync"
    /\ translated[1].raised = "ConflictError"
    /\ translated[1].outcome.status_code = 409
    /\ translated[2].mode = "async"
    /\ translated[2].raised = "UnknownErrorForTest"
    /\ translated[2].outcome.kind = "raised"

(***************************************************************************)
(* Export and import (specification SpecStorage).                          *)
(***************************************************************************)
PathsOf(d) == {e.path : e \in d}

\* C13: once the export of the source directory has been imported, the destination holds
\* exactly the entries of the source: same paths, same kinds, same contents; what it held
\* before at a path of the source is overwritten and what it held at any other path is
\* removed.
C13_ImportReplaces ==
    xfer = "imported" =>
        /\ destDir = srcDir
        /\ \A e \in destBefore : e.path \in PathsOf(srcDir) =>
               \E x \in destDir : x.path = e.path /\ x \in srcDir
        /\ \A e \in destBefore : e.path \notin PathsOf(srcDir) =>
               e.path \notin PathsOf(destDir)

\* the import happened into a destination that held a file the source has with another
\* content, and a file in a place where the source has nothing
C13_Witness ==
    /\ xfer = "imported"
    /\ srcDir = {File(<<"test.txt">>, "Hello, world"), Dir(<<"subdir">>)}
    /\ destBefore = {File(<<"test.txt">>, "this file will be overwritten"), Dir(<<"subdir">>),
                     File(<<"subdir", "test.bin">>, "Hello, world")}
    /\ destDir = srcDir
    /\ [k \in 1..Len(stream) |-> stream[k].path] = << <<"subdir">>, <<"test.txt">> >>

(***************************************************************************)
(* Config get and set (specification SpecConfig).                          *)
(***************************************************************************)
PlainSecrets == SecretValues \ {""}

\* C14: the response of a config set that was accepted and the response of a get carry
\* the public field as it is stored, the masking token in place of a non-empty secret,
\* and never the plaintext of a secret.
C14_SecretRedacted ==
    response.status = 200 =>
        /\ response.test_key = stored.test_key
        /\ stored.secret_field # "" => response.secret_field = Mask
        /\ response.secret_field \notin PlainSecrets

\* a get answered while a plaintext secret, stored by an earlier set, is held
C14_Witness ==
    /\ request.op = "get"
    /\ response.status = 200
    /\ stored = [test_key |-> "new_value", secret_field |-> "new_secret"]
    /\ response.test_key = "new_value"
    /\ response.secret_field = Mask

\* C15: a config set with a field that fails validation is answered with status 400 and
\* leaves the stored config as it was, so that a get after it returns what a get before
\* it returned.
C15_InvalidSetRejected ==
    (request.op = "put" /\ ~(Valid(request.test_key) /\ Valid(request.secret_field))) =>
        /\ response.status = 400
        /\ stored = before
        /\ ConfigResponse(stored) = ConfigResponse(before)

\* a set with an invalid public field and a valid new secret was rejected after a config
\* had been stored
C15_Witness ==
    /\ request.op = "put"
    /\ request.test_key = NotStr
    /\ request.secret_field = Str("other_secret")
    /\ response.status = 400
    /\ before = [test_key |-> "new_value", secret_field |-> "new_secret"]
    /\ stored = before

(***************************************************************************)
(* Independence of the completion order (specification SpecOrder).         *)
(***************************************************************************)
ExpectedResult == IF SomeFail THEN Fail ELSE IF SomeWarn THEN Warn ELSE Pass
ExpectedNote ==
    IF SomeFail THEN tasks[FirstFail].note
    ELSE IF SomeWarn THEN tasks[LastWarn].note
    ELSE None
ExpectedBatches ==
    [i \in 1..(IF SomeFail THEN FirstFail ELSE Len(tasks)) |-> tasks[i].metadata]
InChunkOrder == \A k \in 1..Len(order) : order[k] = k

\* C16: when evaluate has returned, the evaluation of each chunk is that of its own batch
\* and its own service outcome, and the result, the note and the sequence of batch
\* metadata are those determined by the evaluations taken in chunk order, whatever the
\* order in which the tasks completed.
C16_CompletionOrderIrrelevant ==
    Returned =>
        /\ \A i \in Chunks : tasks[i] = evaluate_batch(items[i], service[i], config).ev
        /\ result = ExpectedResult
        /\ note = ExpectedNote
        /\ metadata.batches = ExpectedBatches

\* three tasks that completed last chunk first: the first chunk warns, the second fails,
\* the third fails with another note
C16_Witness ==
    /\ Returned
    /\ ~InChunkOrder
    /\ order = <<3, 2, 1>>
    /\ tasks[1].result = Warn
    /\ tasks[2].result = Fail
    /\ tasks[3].result = Fail
    /\ tasks[3].note # tasks[2].note
    /\ note = tasks[2].note
    /\ Len(metadata.batches) = 2

(***************************************************************************)
(* No Pass without evaluation (specification Spec).                        *)
(***************************************************************************)
\* the characters of the content, by position, that a call of the service carried
Submitted ==
    {items[i][k] : <<i, k>> \in
        {c \in Chunks \X (1..MaxLen) : c[2] <= Len(items[c[1]]) /\ service[c[1]] # NotCalled}}
PassOnlyIfEvaluated ==
    /\ \A p \in 1..Len(text) : text[p] \in Submitted
    /\ \A i \in Chunks : tasks[i].result = Pass

\* C17: when evaluate has returned Pass, every character of the content was carried by
\* a call of the service for some chunk and the evaluation of every chunk is Pass, for
\* every content and every max_request_length the config accepts, zero and negative
\* values included.
C17_PassOnlyIfEvaluated == (Returned /\ result = Pass) => PassOnlyIfEvaluated

\* C17 for max_request_length >= 1, where no content passes unevaluated
C17_PassOnlyIfEvaluatedPositive ==
    (Returned /\ result = Pass /\ MaxRequestLength >= 1) => PassOnlyIfEvaluated

====
